---- MODULE Spec2Model ----
(***************************************************************************)
(* A model of the draw-call builder (class object, Source/object.cpp) and  *)
(* of the texture / material registry and renderer bridge (class           *)
(* SceneManager, Source/SceneManager.cpp).                                 *)
(*                                                                         *)
(* Vectors are tuples of integers, a model matrix is the symbolic product  *)
(* of its five factors, an OpenGL texture name is a positive integer and   *)
(* the shader's uniform state is a function from uniform names to values.  *)
(***************************************************************************)
EXTENDS Integers, Sequences, FiniteSets, TLC

VARIABLES
    \* class object (object.h:38-48)
    uvScale, rotations, scale, position, RGBA, shape, texture, shaderMaterial,
    \* class SceneManager
    m_pShaderManager, m_textureIDs, m_loadedTextures, m_objectMaterials,
    \* memory that follows the m_textureIDs array (written by an indexed
    \* store past its last element)
    pastEnd,
    \* OpenGL context: live texture names, active unit, binding of each unit
    glTextures, glActiveUnit, glUnits,
    \* decoded image buffers returned by stbi_load and not yet freed
    stbImages,
    \* shader program: uniform values; the uniform writes and mesh draws issued
    \* by the last operation called
    uniforms, glCalls,
    \* a null pointer was dereferenced
    nullDeref,
    \* the caller: the last operation called with its arguments, the value the
    \* last CreateGLTexture returned, the tags passed to successful loads, the
    \* number of BindGLTextures calls made
    call, bReturn, loadedTags, nBind

objectVars == <<uvScale, rotations, scale, position, RGBA, shape, texture, shaderMaterial>>
textureVars == <<m_textureIDs, m_loadedTextures, pastEnd, loadedTags, bReturn>>
glVars == <<glTextures, glActiveUnit, glUnits, stbImages>>
shaderVars == <<uniforms, glCalls, nullDeref>>
vars == <<objectVars, m_pShaderManager, textureVars, m_objectMaterials, glVars, shaderVars, call, nBind>>

-----------------------------------------------------------------------------
(* Program constants *)

\* the length of the m_textureIDs array
TexCapacity == 16

NULL == "NULL"

\* the tag and ID the constructor gives to every entry of m_textureIDs
EmptyTextureInfo == [tag |-> "/0", ID |-> -1]

\* object.h member initialisers
Default_uvScale == <<0, 0>>
Default_rotations == <<0, 0, 0>>
Default_scale == <<1, 1, 1>>
Default_position == <<0, 0, 0>>
Default_RGBA == <<0, 0, 0, 1>>
Default_shape == "DrawBoxMesh"

\* names of the shader uniforms
g_ModelName == "model"
g_ColorValueName == "objectColor"
g_TextureValueName == "objectTexture"
g_UseTextureName == "bUseTexture"
MaterialUniforms == {"material.ambientColor", "material.ambientStrength",
                     "material.diffuseColor", "material.specularColor",
                     "material.shininess"}

-----------------------------------------------------------------------------
(* Inputs *)

Vec2s == {<<0, 0>>, <<1, 1>>}
Positions == {<<0, 0, 0>>, <<1, 2, 3>>}
Rotations == {<<0, 0, 0>>, <<0, 90, 0>>}
Scales == {<<1, 1, 1>>, <<2, 2, 2>>}
Vec4s == {<<0, 0, 0, 1>>, <<1, 0, 0, 1>>}
Shapes == {"DrawBoxMesh", "DrawCylinderMesh"}
Tags == {"wood", "keys"}
MaterialTags == {"metal", "glass"}

\* the five fields of an OBJECT_MATERIAL, in thousandths
MaterialFields(ac, as, dc, sc, sh) ==
    [ambientColor |-> ac, ambientStrength |-> as, diffuseColor |-> dc,
     specularColor |-> sc, shininess |-> sh]
MetalFields == MaterialFields(<<200, 200, 200>>, 300, <<200, 200, 200>>, <<500, 500, 500>>, 22000)
GlassFields == MaterialFields(<<400, 400, 400>>, 300, <<300, 300, 300>>, <<600, 600, 600>>, 85000)
ScreenFields == MaterialFields(<<298, 694, 929>>, 200, <<300, 300, 300>>, <<600, 600, 600>>, 10000)
WoodFields == MaterialFields(<<100, 100, 100>>, 200, <<230, 230, 230>>, <<100, 100, 100>>, 300)
SoftFields == MaterialFields(<<200, 200, 200>>, 400, <<100, 100, 100>>, <<100, 100, 100>>, 50)
WallFields == MaterialFields(<<200, 200, 200>>, 300, <<500, 500, 500>>, <<300, 300, 300>>, 500)
MatteFields == MaterialFields(<<200, 200, 200>>, 200, <<100, 100, 100>>, <<0, 0, 0>>, 0)
HedgeFields == MaterialFields(<<100, 100, 100>>, 100, <<300, 200, 300>>, <<400, 200, 200>>, 500)
OBJECT_MATERIAL(tag, f) == [tag |-> tag, fields |-> f]
Materials == {OBJECT_MATERIAL("metal", MetalFields), OBJECT_MATERIAL("glass", GlassFields),
              OBJECT_MATERIAL("glass", ScreenFields)}

\* what a default-initialised OBJECT_MATERIAL local may hold: its floats are
\* not initialised
Indeterminate == {MetalFields, ScreenFields,
                  MaterialFields(<<0, 0, 0>>, 0, <<0, 0, 0>>, <<0, 0, 0>>, 0)}

-----------------------------------------------------------------------------
(* Bounds *)

\* materials pushed onto m_objectMaterials
MaxMaterials == 3
\* glGenTextures calls in the specification of the texture loader
MaxGen == 3
\* glGenTextures calls in the specification of the scene
MaxSceneGen == 2
\* successful loads in the specification that fills the texture table
MaxFill == 17
\* texture files of the scene that fail to load
MaxFailedLoads == 1
\* BindGLTextures calls in the specification of the registry's lifetime
MaxBinds == 2

-----------------------------------------------------------------------------
(* Construction *)

\* the state once a SceneManager has been constructed with pShaderManager,
\* and a builder with the member initialisers of object.h
SceneManager(pShaderManager) ==
    /\ uvScale = Default_uvScale
    /\ rotations = Default_rotations
    /\ scale = Default_scale
    /\ position = Default_position
    /\ RGBA = Default_RGBA
    /\ shape = Default_shape
    /\ texture = ""
    /\ shaderMaterial = ""
    /\ m_pShaderManager = pShaderManager
    /\ m_textureIDs = [i \in 0..(TexCapacity - 1) |-> EmptyTextureInfo]
    /\ m_loadedTextures = 0
    /\ m_objectMaterials = <<>>
    /\ pastEnd = <<>>
    /\ glTextures = {}
    /\ glActiveUnit = 0
    /\ glUnits = [u \in 0..(TexCapacity - 1) |-> 0]
    /\ stbImages = 0
    /\ uniforms = [n \in {} |-> 0]
    /\ glCalls = <<>>
    /\ nBind = 0
    /\ nullDeref = FALSE
    /\ call = [op |-> "object", arg |-> <<>>]
    /\ bReturn = FALSE
    /\ loadedTags = {}

Init == SceneManager("ShaderManager")

\* construction without a shader interface
InitNull == SceneManager(NULL)

-----------------------------------------------------------------------------
(* object: the setters and resetAll *)

Called(op, arg) ==
    /\ call' = [op |-> op, arg |-> arg]
    /\ nBind' = IF op = "BindGLTextures" THEN nBind + 1 ELSE nBind

\* an operation that writes no uniform and draws no mesh
NoCalls == glCalls' = <<>> /\ UNCHANGED <<uniforms, nullDeref>>

set_uvScale(given_uvScale) ==
    /\ uvScale' = given_uvScale
    /\ Called("set_uvScale", <<given_uvScale>>)
    /\ UNCHANGED <<rotations, scale, position, RGBA, shape, texture, shaderMaterial>>
    /\ NoCalls
    /\ UNCHANGED <<m_pShaderManager, textureVars, m_objectMaterials, glVars>>

setRotations(givenRotations) ==
    /\ rotations' = givenRotations
    /\ Called("setRotations", <<givenRotations>>)
    /\ UNCHANGED <<uvScale, scale, position, RGBA, shape, texture, shaderMaterial>>
    /\ NoCalls
    /\ UNCHANGED <<m_pShaderManager, textureVars, m_objectMaterials, glVars>>

setScale(givenScale) ==
    /\ scale' = givenScale
    /\ Called("setScale", <<givenScale>>)
    /\ UNCHANGED <<uvScale, rotations, position, RGBA, shape, texture, shaderMaterial>>
    /\ NoCalls
    /\ UNCHANGED <<m_pShaderManager, textureVars, m_objectMaterials, glVars>>

setPosition(givenPosition) ==
    /\ position' = givenPosition
    /\ Called("setPosition", <<givenPosition>>)
    /\ UNCHANGED <<uvScale, rotations, scale, RGBA, shape, texture, shaderMaterial>>
    /\ NoCalls
    /\ UNCHANGED <<m_pShaderManager, textureVars, m_objectMaterials, glVars>>

setRGBA(givenRGBA) ==
    /\ RGBA' = givenRGBA
    /\ Called("setRGBA", <<givenRGBA>>)
    /\ UNCHANGED <<uvScale, rotations, scale, position, shape, texture, shaderMaterial>>
    /\ NoCalls
    /\ UNCHANGED <<m_pShaderManager, textureVars, m_objectMaterials, glVars>>

setShape(givenShape) ==
    /\ shape' = givenShape
    /\ Called("setShape", <<givenShape>>)
    /\ UNCHANGED <<uvScale, rotations, scale, position, RGBA, texture, shaderMaterial>>
    /\ NoCalls
    /\ UNCHANGED <<m_pShaderManager, textureVars, m_objectMaterials, glVars>>

setTexture(givenTexture) ==
    /\ texture' = givenTexture
    /\ Called("setTexture", <<givenTexture>>)
    /\ UNCHANGED <<uvScale, rotations, scale, position, RGBA, shape, shaderMaterial>>
    /\ NoCalls
    /\ UNCHANGED <<m_pShaderManager, textureVars, m_objectMaterials, glVars>>

\* setObjectShaderMaterial storing into the field of the setter it was copied from
setObjectShaderMaterial_intoTexture(givenMaterial) ==
    /\ texture' = givenMaterial
    /\ Called("setObjectShaderMaterial", <<givenMaterial>>)
    /\ UNCHANGED <<uvScale, rotations, scale, position, RGBA, shape, shaderMaterial>>
    /\ NoCalls
    /\ UNCHANGED <<m_pShaderManager, textureVars, m_objectMaterials, glVars>>

setObjectShaderMaterial(givenMaterial) ==
    /\ shaderMaterial' = givenMaterial
    /\ Called("setObjectShaderMaterial", <<givenMaterial>>)
    /\ UNCHANGED <<uvScale, rotations, scale, position, RGBA, shape, texture>>
    /\ NoCalls
    /\ UNCHANGED <<m_pShaderManager, textureVars, m_objectMaterials, glVars>>

\* resetAll without its last assignment
resetAll_keepsMaterial ==
    /\ uvScale' = <<0, 0>>
    /\ rotations' = <<0, 0, 0>>
    /\ scale' = <<1, 1, 1>>
    /\ position' = <<0, 0, 0>>
    /\ RGBA' = <<0, 0, 0, 1>>
    /\ texture' = ""
    /\ Called("resetAll", <<>>)
    /\ UNCHANGED <<shape, shaderMaterial>>
    /\ NoCalls
    /\ UNCHANGED <<m_pShaderManager, textureVars, m_objectMaterials, glVars>>

resetAll ==
    /\ uvScale' = <<0, 0>>
    /\ rotations' = <<0, 0, 0>>
    /\ scale' = <<1, 1, 1>>
    /\ position' = <<0, 0, 0>>
    /\ RGBA' = <<0, 0, 0, 1>>
    /\ texture' = ""
    /\ shaderMaterial' = ""
    /\ Called("resetAll", <<>>)
    /\ UNCHANGED shape
    /\ NoCalls
    /\ UNCHANGED <<m_pShaderManager, textureVars, m_objectMaterials, glVars>>

-----------------------------------------------------------------------------
(* SceneManager: the texture table *)

\* m_textureIDs[index] as the compiled code reads it: the array element, or
\* the memory that follows the array when index is past its last element
TextureInfoAt(index) ==
    IF index < TexCapacity THEN m_textureIDs[index]
    ELSE pastEnd[index - TexCapacity + 1]

\* the loop of FindTextureID without its bFound test: the last entry with
\* the tag wins
RECURSIVE FindTextureIDFrom_lastMatch(_, _)
FindTextureIDFrom_lastMatch(tag, index) ==
    IF index < m_loadedTextures
    THEN LET later == FindTextureIDFrom_lastMatch(tag, index + 1)
         IN  IF later # -1 THEN later
             ELSE IF TextureInfoAt(index).tag = tag THEN TextureInfoAt(index).ID ELSE -1
    ELSE -1

RECURSIVE FindTextureIDFrom(_, _)
FindTextureIDFrom(tag, index) ==
    IF index < m_loadedTextures
    THEN IF TextureInfoAt(index).tag = tag
         THEN TextureInfoAt(index).ID
         ELSE FindTextureIDFrom(tag, index + 1)
    ELSE -1

FindTextureID(tag) == FindTextureIDFrom(tag, 0)

RECURSIVE FindTextureSlotFrom(_, _)
FindTextureSlotFrom(tag, index) ==
    IF index < m_loadedTextures
    THEN IF TextureInfoAt(index).tag = tag
         THEN index
         ELSE FindTextureSlotFrom(tag, index + 1)
    ELSE -1

FindTextureSlot(tag) == FindTextureSlotFrom(tag, 0)

\* glGenTextures(1, &textureID): an unused texture name
glGenTexturesIn(live) ==
    CHOOSE n \in 1..(Cardinality(live) + 1) :
        /\ n \notin live
        /\ \A k \in 1..(n - 1) : k \in live
glGenTextures == glGenTexturesIn(glTextures)

\* what the memory after the array holds once m_textureIDs[index] has been
\* stored with index >= 16: the stored entry, or whatever overwrote it
PastEndOutcomes(info) == {info, [tag |-> "?", ID |-> 0]}

\* the registration storing over the entry that already has the tag
RegisterTexture_replacesTag(tag, textureID) ==
    IF FindTextureSlot(tag) # -1
    THEN /\ m_textureIDs' = [m_textureIDs EXCEPT ![FindTextureSlot(tag)].ID = textureID]
         /\ UNCHANGED <<pastEnd, m_loadedTextures>>
    ELSE /\ m_textureIDs' = [m_textureIDs EXCEPT ![m_loadedTextures] =
                                [tag |-> tag, ID |-> textureID]]
         /\ UNCHANGED pastEnd
         /\ m_loadedTextures' = m_loadedTextures + 1

\* the registration indexing the table by the number of textures generated
\* before this one, whether their loads succeeded or not
RegisterTexture_countsGenerated(tag, textureID) ==
    /\ m_textureIDs' = [m_textureIDs EXCEPT ![Cardinality(glTextures)] =
                           [tag |-> tag, ID |-> textureID]]
    /\ UNCHANGED pastEnd
    /\ m_loadedTextures' = Cardinality(glTextures) + 1

\* the registration of a loaded texture: m_textureIDs[m_loadedTextures] is
\* stored without a test of the index, then m_loadedTextures is incremented
RegisterTexture(tag, textureID) ==
    /\ IF m_loadedTextures < TexCapacity
       THEN /\ m_textureIDs' = [m_textureIDs EXCEPT ![m_loadedTextures] =
                                   [tag |-> tag, ID |-> textureID]]
            /\ UNCHANGED pastEnd
       ELSE /\ \E stored \in PastEndOutcomes([tag |-> tag, ID |-> textureID]) :
                   pastEnd' = Append(pastEnd, stored)
            /\ UNCHANGED m_textureIDs
    /\ m_loadedTextures' = m_loadedTextures + 1

\* CreateGLTexture registering the texture whatever the channel count, and
\* reporting the failure afterwards
CreateGLTexture_registersFirst(colorChannels, tag) ==
    /\ Called("CreateGLTexture", <<colorChannels, tag>>)
    /\ IF colorChannels = 0
       THEN /\ bReturn' = FALSE
            /\ UNCHANGED <<m_textureIDs, m_loadedTextures, pastEnd, loadedTags, glVars>>
       ELSE LET textureID == glGenTextures IN
            /\ glTextures' = glTextures \cup {textureID}
            /\ glUnits' = [glUnits EXCEPT ![glActiveUnit] = 0]
            /\ stbImages' = stbImages
            /\ RegisterTexture(tag, textureID)
            /\ loadedTags' = IF colorChannels \in {3, 4} THEN loadedTags \cup {tag} ELSE loadedTags
            /\ bReturn' = (colorChannels \in {3, 4})
            /\ UNCHANGED glActiveUnit
    /\ NoCalls
    /\ UNCHANGED <<objectVars, m_pShaderManager, m_objectMaterials>>

\* colorChannels is what stbi_load makes of the file: 0 when it returns no
\* image, else the number of channels of the decoded image
CreateGLTexture(colorChannels, tag) ==
    /\ Called("CreateGLTexture", <<colorChannels, tag>>)
    /\ IF colorChannels = 0
       THEN \* stbi_load failed
            /\ bReturn' = FALSE
            /\ UNCHANGED <<m_textureIDs, m_loadedTextures, pastEnd, loadedTags, glVars>>
       ELSE LET textureID == glGenTextures IN
            IF colorChannels \notin {3, 4}
            THEN \* return false at line 119: the texture stays generated and
                 \* bound, the image is not freed
                 /\ glTextures' = glTextures \cup {textureID}
                 /\ glUnits' = [glUnits EXCEPT ![glActiveUnit] = textureID]
                 /\ stbImages' = stbImages + 1
                 /\ bReturn' = FALSE
                 /\ UNCHANGED <<m_textureIDs, m_loadedTextures, pastEnd, loadedTags, glActiveUnit>>
            ELSE /\ glTextures' = glTextures \cup {textureID}
                 /\ glUnits' = [glUnits EXCEPT ![glActiveUnit] = 0]
                 /\ stbImages' = stbImages
                 /\ RegisterTexture(tag, textureID)
                 /\ loadedTags' = loadedTags \cup {tag}
                 /\ bReturn' = TRUE
                 /\ UNCHANGED glActiveUnit
    /\ NoCalls
    /\ UNCHANGED <<objectVars, m_pShaderManager, m_objectMaterials>>

\* BindGLTextures binding every texture to the unit that is active
BindGLTextures_oneUnit ==
    /\ Called("BindGLTextures", <<>>)
    /\ glUnits' = IF m_loadedTextures > 0
                  THEN [glUnits EXCEPT ![glActiveUnit] = TextureInfoAt(m_loadedTextures - 1).ID]
                  ELSE glUnits
    /\ UNCHANGED <<glActiveUnit, glTextures, stbImages>>
    /\ NoCalls
    /\ UNCHANGED <<objectVars, m_pShaderManager, textureVars, m_objectMaterials>>

\* the loop leaves unit i active and bound to the ID of entry i, for every
\* i below m_loadedTextures
BindGLTextures ==
    /\ Called("BindGLTextures", <<>>)
    /\ glUnits' = [u \in DOMAIN glUnits \cup 0..(m_loadedTextures - 1) |->
                      IF u < m_loadedTextures THEN TextureInfoAt(u).ID ELSE glUnits[u]]
    /\ glActiveUnit' = IF m_loadedTextures > 0 THEN m_loadedTextures - 1 ELSE glActiveUnit
    /\ UNCHANGED <<glTextures, stbImages>>
    /\ NoCalls
    /\ UNCHANGED <<objectVars, m_pShaderManager, textureVars, m_objectMaterials>>

\* the loop of DestroyGLTextures from entry i on; d holds the table, the
\* memory after it and the live texture names
RECURSIVE DestroyGLTexturesFrom(_, _)
DestroyGLTexturesFrom(d, i) ==
    IF i < m_loadedTextures
    THEN LET textureID == glGenTexturesIn(d.live)
             live == d.live \cup {textureID}
         IN  IF i < TexCapacity
             THEN DestroyGLTexturesFrom(
                      [d EXCEPT !.table[i].ID = textureID, !.live = live], i + 1)
             ELSE DestroyGLTexturesFrom(
                      [d EXCEPT !.past[i - TexCapacity + 1].ID = textureID, !.live = live], i + 1)
    ELSE d

DestroyGLTextures ==
    DestroyGLTexturesFrom([table |-> m_textureIDs, past |-> pastEnd, live |-> glTextures], 0)

\* ~SceneManager()
SceneManager_destructor ==
    LET d == DestroyGLTextures
    IN  /\ Called("~SceneManager", <<>>)
        /\ m_pShaderManager' = NULL
        /\ m_textureIDs' = d.table
        /\ pastEnd' = d.past
        /\ glTextures' = d.live
        /\ UNCHANGED <<m_loadedTextures, loadedTags, bReturn>>
        /\ UNCHANGED <<glActiveUnit, glUnits, stbImages>>
        /\ NoCalls
        /\ UNCHANGED <<objectVars, m_objectMaterials>>

-----------------------------------------------------------------------------
(* SceneManager: the material table *)

\* m_objectMaterials.push_back(material)
push_back(material) ==
    /\ m_objectMaterials' = Append(m_objectMaterials, material)
    /\ Called("push_back", <<material>>)
    /\ NoCalls
    /\ UNCHANGED <<objectVars, m_pShaderManager, textureVars, glVars>>

\* DefineObjectMaterials pushing an eighth record, tagged "screen", before
\* the last one
DefineObjectMaterials_pushesScreen ==
    /\ m_objectMaterials' = m_objectMaterials \o
            <<OBJECT_MATERIAL("metal", MetalFields), OBJECT_MATERIAL("wood", WoodFields),
              OBJECT_MATERIAL("glass", GlassFields), OBJECT_MATERIAL("soft", SoftFields),
              OBJECT_MATERIAL("wall", WallFields), OBJECT_MATERIAL("matte", MatteFields),
              OBJECT_MATERIAL("screen", ScreenFields), OBJECT_MATERIAL("hedge", HedgeFields)>>
    /\ Called("DefineObjectMaterials", <<>>)
    /\ NoCalls
    /\ UNCHANGED <<objectVars, m_pShaderManager, textureVars, glVars>>

\* DefineObjectMaterials with the third record holding the values that are
\* assigned to glassMaterial under the heading of the screen material
DefineObjectMaterials_screenOverGlass ==
    /\ m_objectMaterials' = m_objectMaterials \o
            <<OBJECT_MATERIAL("metal", MetalFields), OBJECT_MATERIAL("wood", WoodFields),
              OBJECT_MATERIAL("glass", ScreenFields), OBJECT_MATERIAL("soft", SoftFields),
              OBJECT_MATERIAL("wall", WallFields), OBJECT_MATERIAL("matte", MatteFields),
              OBJECT_MATERIAL("hedge", HedgeFields)>>
    /\ Called("DefineObjectMaterials", <<>>)
    /\ NoCalls
    /\ UNCHANGED <<objectVars, m_pShaderManager, textureVars, glVars>>

\* DefineObjectMaterials: seven push_back calls; the values assigned to the
\* local glassMaterial after its push_back (tag "screen") are pushed nowhere
DefineObjectMaterials ==
    LET goldMaterial == OBJECT_MATERIAL("metal", MetalFields)
        woodMaterial == OBJECT_MATERIAL("wood", WoodFields)
        glassMaterial == OBJECT_MATERIAL("glass", GlassFields)
        softMaterial == OBJECT_MATERIAL("soft", SoftFields)
        wallMaterial == OBJECT_MATERIAL("wall", WallFields)
        matteMaterial == OBJECT_MATERIAL("matte", MatteFields)
        hedgeMaterial == OBJECT_MATERIAL("hedge", HedgeFields)
    IN  /\ m_objectMaterials' = m_objectMaterials \o
                <<goldMaterial, woodMaterial, glassMaterial, softMaterial, wallMaterial,
                  matteMaterial, hedgeMaterial>>
        /\ Called("DefineObjectMaterials", <<>>)
        /\ NoCalls
        /\ UNCHANGED <<objectVars, m_pShaderManager, textureVars, glVars>>

\* the loop of FindMaterial without its bFound test: it runs to the end of
\* the vector and every match overwrites material
RECURSIVE FindMaterialFrom_lastMatch(_, _, _)
FindMaterialFrom_lastMatch(tag, material, index) ==
    IF index <= Len(m_objectMaterials)
    THEN IF m_objectMaterials[index].tag = tag
         THEN FindMaterialFrom_lastMatch(tag, m_objectMaterials[index].fields, index + 1)
         ELSE FindMaterialFrom_lastMatch(tag, material, index + 1)
    ELSE material

\* the loop of FindMaterial from index on (the vector is indexed from 1 here);
\* material is the caller's OBJECT_MATERIAL, assigned only on a match
RECURSIVE FindMaterialFrom(_, _, _)
FindMaterialFrom(tag, material, index) ==
    IF index <= Len(m_objectMaterials)
    THEN IF m_objectMaterials[index].tag = tag
         THEN m_objectMaterials[index].fields
         ELSE FindMaterialFrom(tag, material, index + 1)
    ELSE material

\* the value returned and the caller's material after the call
FindMaterial(tag, material) ==
    IF Len(m_objectMaterials) = 0
    THEN [bReturn |-> FALSE, material |-> material]
    ELSE [bReturn |-> TRUE, material |-> FindMaterialFrom(tag, material, 1)]

-----------------------------------------------------------------------------
(* SceneManager: the renderer bridge.  g holds the uniform values (u), the *)
(* calls issued so far (log) and whether a null pointer was dereferenced.  *)

SetUniform(g, name, value) ==
    [g EXCEPT !.u = [n \in DOMAIN g.u \cup {name} |-> IF n = name THEN value ELSE g.u[n]],
              !.log = Append(g.log, <<name, value>>)]

\* glm::translate, glm::rotate and glm::scale as symbolic matrices: the
\* identity is the empty product, any other matrix a product of one factor
Identity == <<>>
glmTranslate(v) == IF v = <<0, 0, 0>> THEN Identity ELSE << <<"translate", v>> >>
glmRotate(degrees, axis) == IF degrees = 0 THEN Identity ELSE << <<"rotate", degrees, axis>> >>
glmScale(v) == IF v = <<1, 1, 1>> THEN Identity ELSE << <<"scale", v>> >>

\* SetTransformations multiplying the five matrices in the opposite order
SetTransformations_scaleFirst(g, scaleXYZ, XrotationDegrees, YrotationDegrees, ZrotationDegrees, positionXYZ) ==
    LET scaleM == glmScale(scaleXYZ)
        rotationX == glmRotate(XrotationDegrees, <<1, 0, 0>>)
        rotationY == glmRotate(YrotationDegrees, <<0, 1, 0>>)
        rotationZ == glmRotate(ZrotationDegrees, <<0, 0, 1>>)
        translation == glmTranslate(positionXYZ)
        modelView == scaleM \o rotationZ \o rotationY \o rotationX \o translation
    IN  IF NULL # m_pShaderManager
        THEN SetUniform(g, g_ModelName, modelView)
        ELSE g

SetTransformations(g, scaleXYZ, XrotationDegrees, YrotationDegrees, ZrotationDegrees, positionXYZ) ==
    LET scaleM == glmScale(scaleXYZ)
        rotationX == glmRotate(XrotationDegrees, <<1, 0, 0>>)
        rotationY == glmRotate(YrotationDegrees, <<0, 1, 0>>)
        rotationZ == glmRotate(ZrotationDegrees, <<0, 0, 1>>)
        translation == glmTranslate(positionXYZ)
        modelView == translation \o rotationX \o rotationY \o rotationZ \o scaleM
    IN  IF NULL # m_pShaderManager
        THEN SetUniform(g, g_ModelName, modelView)
        ELSE g

SetShaderColor(g, redColorValue, greenColorValue, blueColorValue, alphaValue) ==
    LET currentColor == <<redColorValue, greenColorValue, blueColorValue, alphaValue>>
    IN  IF NULL # m_pShaderManager
        THEN SetUniform(SetUniform(g, g_UseTextureName, 0), g_ColorValueName, currentColor)
        ELSE g

\* SetShaderTexture submitting the texture's OpenGL name instead of its slot
SetShaderTexture_submitsID(g, textureTag) ==
    IF NULL # m_pShaderManager
    THEN LET textureID == FindTextureID(textureTag)
         IN  SetUniform(SetUniform(g, g_UseTextureName, 1), g_TextureValueName, textureID)
    ELSE g

\* SetShaderTexture leaving the shader alone when the tag matches no entry
SetShaderTexture_skipsUnknown(g, textureTag) ==
    IF NULL # m_pShaderManager /\ FindTextureSlot(textureTag) # -1
    THEN LET textureID == FindTextureSlot(textureTag)
         IN  SetUniform(SetUniform(g, g_UseTextureName, 1), g_TextureValueName, textureID)
    ELSE g

SetShaderTexture(g, textureTag) ==
    IF NULL # m_pShaderManager
    THEN LET textureID == FindTextureSlot(textureTag)
         IN  SetUniform(SetUniform(g, g_UseTextureName, 1), g_TextureValueName, textureID)
    ELSE g

SetTextureUVScale(g, u, v) ==
    IF NULL # m_pShaderManager
    THEN SetUniform(g, "UVscale", <<u, v>>)
    ELSE g

\* local is what the uninitialised local OBJECT_MATERIAL holds
SetShaderMaterial(g, materialTag, local) ==
    IF Len(m_objectMaterials) > 0
    THEN LET found == FindMaterial(materialTag, local)
             material == found.material
         IN  IF found.bReturn = TRUE
             THEN IF NULL = m_pShaderManager
                  THEN [g EXCEPT !.nullDeref = TRUE]
                  ELSE SetUniform(SetUniform(SetUniform(SetUniform(SetUniform(g,
                           "material.ambientColor", material.ambientColor),
                           "material.ambientStrength", material.ambientStrength),
                           "material.diffuseColor", material.diffuseColor),
                           "material.specularColor", material.specularColor),
                           "material.shininess", material.shininess)
             ELSE g
    ELSE g

\* the uniform writes of SetupSceneLights, in order (values in thousandths)
LightSource(i, p, ac, dc, sc, fs, si) ==
    << <<"lightSources[" \o i \o "].position", p>>,
       <<"lightSources[" \o i \o "].ambientColor", ac>>,
       <<"lightSources[" \o i \o "].diffuseColor", dc>>,
       <<"lightSources[" \o i \o "].specularColor", sc>>,
       <<"lightSources[" \o i \o "].focalStrength", fs>>,
       <<"lightSources[" \o i \o "].specularIntensity", si>> >>
SceneLights ==
    << <<"bUseLighting", 1>> >>
    \o LightSource("0", <<-3000, 10000, 6000>>, <<100, 100, 100>>, <<500, 500, 500>>,
                    <<200, 200, 200>>, 32000, 200)
    \o LightSource("1", <<0, 71000, 0>>, <<50, 50, 50>>, <<300, 300, 300>>,
                    <<100, 100, 100>>, 20000, 100)
    \o LightSource("2", <<5000, 70000, -79000>>, <<300, 300, 300>>, <<800, 800, 800>>,
                    <<0, 0, 0>>, 12000, 200)
    \o LightSource("3", <<-1000, 7400, -2992>>, <<0, 0, 200>>, <<0, 0, 800>>,
                    <<0, 0, 500>>, 50000, 50)

RECURSIVE SetUniforms(_, _, _)
SetUniforms(g, writes, i) ==
    IF i <= Len(writes)
    THEN SetUniforms(SetUniform(g, writes[i][1], writes[i][2]), writes, i + 1)
    ELSE g

\* SetupSceneLights uses m_pShaderManager without testing it
SetupSceneLights ==
    LET g0 == [u |-> uniforms, log |-> <<>>, nullDeref |-> nullDeref]
        g1 == IF NULL = m_pShaderManager
              THEN [g0 EXCEPT !.nullDeref = TRUE]
              ELSE SetUniforms(g0, SceneLights, 1)
    IN  /\ uniforms' = g1.u
        /\ glCalls' = g1.log
        /\ nullDeref' = g1.nullDeref
        /\ Called("SetupSceneLights", <<>>)
        /\ UNCHANGED <<objectVars, m_pShaderManager, textureVars, m_objectMaterials, glVars>>

\* shape(): the stored lambda calls one Draw...Mesh of m_basicMeshes
DrawMesh(g, mesh) == [g EXCEPT !.log = Append(g.log, <<"draw", mesh>>)]

-----------------------------------------------------------------------------
(* object::render *)

\* render() submitting the UV scale whether the texture tag is empty or not
render_alwaysUVScale(local) ==
    LET g0 == [u |-> uniforms, log |-> <<>>, nullDeref |-> nullDeref]
        g1 == SetTransformations(g0, scale, rotations[1], rotations[2], rotations[3], position)
        g2 == SetShaderColor(g1, RGBA[1], RGBA[2], RGBA[3], RGBA[4])
        g3 == IF texture # ""
              THEN SetShaderTexture(g2, texture)
              ELSE g2
        g4 == SetTextureUVScale(g3, uvScale[1], uvScale[2])
        g5 == IF shaderMaterial # ""
              THEN SetShaderMaterial(g4, shaderMaterial, local)
              ELSE g4
        g6 == DrawMesh(g5, shape)
    IN  /\ uniforms' = g6.u
        /\ glCalls' = g6.log
        /\ nullDeref' = g6.nullDeref
        /\ Called("render", <<>>)
        /\ UNCHANGED <<objectVars, m_pShaderManager, textureVars, m_objectMaterials, glVars>>

\* render() submitting the colour after the texture
render_colorAfterTexture(local) ==
    LET g0 == [u |-> uniforms, log |-> <<>>, nullDeref |-> nullDeref]
        g1 == SetTransformations(g0, scale, rotations[1], rotations[2], rotations[3], position)
        g2 == IF texture # ""
              THEN SetTextureUVScale(SetShaderTexture(g1, texture), uvScale[1], uvScale[2])
              ELSE g1
        g3 == SetShaderColor(g2, RGBA[1], RGBA[2], RGBA[3], RGBA[4])
        g4 == IF shaderMaterial # ""
              THEN SetShaderMaterial(g3, shaderMaterial, local)
              ELSE g3
        g5 == DrawMesh(g4, shape)
    IN  /\ uniforms' = g5.u
        /\ glCalls' = g5.log
        /\ nullDeref' = g5.nullDeref
        /\ Called("render", <<>>)
        /\ UNCHANGED <<objectVars, m_pShaderManager, textureVars, m_objectMaterials, glVars>>

render(local) ==
    LET g0 == [u |-> uniforms, log |-> <<>>, nullDeref |-> nullDeref]
        g1 == SetTransformations(g0, scale, rotations[1], rotations[2], rotations[3], position)
        g2 == SetShaderColor(g1, RGBA[1], RGBA[2], RGBA[3], RGBA[4])
        g3 == IF texture # ""
              THEN SetTextureUVScale(SetShaderTexture(g2, texture), uvScale[1], uvScale[2])
              ELSE g2
        g4 == IF shaderMaterial # ""
              THEN SetShaderMaterial(g3, shaderMaterial, local)
              ELSE g3
        g5 == DrawMesh(g4, shape)
    IN  /\ uniforms' = g5.u
        /\ glCalls' = g5.log
        /\ nullDeref' = g5.nullDeref
        /\ Called("render", <<>>)
        /\ UNCHANGED <<objectVars, m_pShaderManager, textureVars, m_objectMaterials, glVars>>

-----------------------------------------------------------------------------
(* Specifications *)

\* the builder alone: any sequence of builder calls on an empty registry
NextBuilder ==
    \/ \E v \in Vec2s : set_uvScale(v)
    \/ \E v \in Rotations : setRotations(v)
    \/ \E v \in Scales : setScale(v)
    \/ \E v \in Positions : setPosition(v)
    \/ \E v \in Vec4s : setRGBA(v)
    \/ \E f \in Shapes : setShape(f)
    \/ \E t \in {"", "wood"} : setTexture(t)
    \/ \E t \in {"", "glass"} : setObjectShaderMaterial(t)
    \/ resetAll
    \/ \E local \in Indeterminate : render(local)

SpecBuilder == Init /\ [][NextBuilder]_vars

-----------------------------------------------------------------------------
(* The builder's fields *)

\* the draws, and the uniform writes, among the calls of the last operation
Draws == {i \in 1..Len(glCalls) : glCalls[i][1] = "draw"}
Written(name) == \E i \in 1..Len(glCalls) : glCalls[i][1] = name
WrittenValue(name, value) == \E i \in 1..Len(glCalls) : glCalls[i] = <<name, value>>

\* C1: every builder call leaves a field as it was unless it is the setter of
\* that field, which stores the given value, or resetAll; so a field that no
\* call has set since the previous draw still holds the value it had there.
\* render() changes no field.
C1_SettersChangeOneField ==
    [][ /\ (call'.op = "set_uvScale" => uvScale' = call'.arg[1])
        /\ (call'.op \notin {"set_uvScale", "resetAll"} => uvScale' = uvScale)
        /\ (call'.op = "setRotations" => rotations' = call'.arg[1])
        /\ (call'.op \notin {"setRotations", "resetAll"} => rotations' = rotations)
        /\ (call'.op = "setScale" => scale' = call'.arg[1])
        /\ (call'.op \notin {"setScale", "resetAll"} => scale' = scale)
        /\ (call'.op = "setPosition" => position' = call'.arg[1])
        /\ (call'.op \notin {"setPosition", "resetAll"} => position' = position)
        /\ (call'.op = "setRGBA" => RGBA' = call'.arg[1])
        /\ (call'.op \notin {"setRGBA", "resetAll"} => RGBA' = RGBA)
        /\ (call'.op = "setShape" => shape' = call'.arg[1])
        /\ (call'.op # "setShape" => shape' = shape)
        /\ (call'.op = "setTexture" => texture' = call'.arg[1])
        /\ (call'.op \notin {"setTexture", "resetAll"} => texture' = texture)
        /\ (call'.op = "setObjectShaderMaterial" => shaderMaterial' = call'.arg[1])
        /\ (call'.op \notin {"setObjectShaderMaterial", "resetAll"} =>
                shaderMaterial' = shaderMaterial)
      ]_vars

\* a setter has just changed one field after a draw that submitted the other,
\* non-default, fields, which still hold the values of that draw
C1_Witness ==
    /\ call = [op |-> "setScale", arg |-> << <<2, 2, 2>> >>]
    /\ scale = <<2, 2, 2>>
    /\ DOMAIN uniforms # {}
    /\ uniforms[g_ModelName] = glmTranslate(<<1, 2, 3>>) \o glmRotate(90, <<0, 1, 0>>)
    /\ position = <<1, 2, 3>> /\ rotations = <<0, 90, 0>>
    /\ uniforms[g_ColorValueName] = <<1, 0, 0, 1>> /\ RGBA = <<1, 0, 0, 1>>
    /\ uniforms[g_UseTextureName] = 1
    /\ uniforms["UVscale"] = <<1, 1>> /\ uvScale = <<1, 1>>
    /\ texture = "wood" /\ shaderMaterial = "glass" /\ shape = "DrawCylinderMesh"

\* C2: resetAll() leaves every field but the mesh selector at the value a
\* freshly constructed builder has, and the mesh selector as it was.
C2_ResetAllRestoresDefaults ==
    [][ call'.op = "resetAll" =>
            /\ uvScale' = Default_uvScale
            /\ rotations' = Default_rotations
            /\ scale' = Default_scale
            /\ position' = Default_position
            /\ RGBA' = Default_RGBA
            /\ texture' = ""
            /\ shaderMaterial' = ""
            /\ shape' = shape
      ]_vars

\* resetAll() has just run on a builder whose last draw used a non-default
\* transform and colour, and whose mesh selector is not the default one
C2_Witness ==
    /\ call.op = "resetAll"
    /\ shape = "DrawCylinderMesh"
    /\ <<uvScale, rotations, scale, position, RGBA, texture, shaderMaterial>> =
       <<Default_uvScale, Default_rotations, Default_scale, Default_position,
         Default_RGBA, "", "">>
    /\ DOMAIN uniforms # {}
    /\ uniforms[g_ModelName] = glmTranslate(<<1, 2, 3>>) \o glmRotate(90, <<0, 1, 0>>)
                                   \o glmScale(<<2, 2, 2>>)
    /\ uniforms[g_ColorValueName] = <<1, 0, 0, 1>>
    /\ uniforms[g_UseTextureName] = 1
    /\ uniforms["UVscale"] = <<1, 1>>

-----------------------------------------------------------------------------
(* The texture loader *)

\* what stbi_load can make of a file: no image (0), or 1 to 4 channels
Channels == 0..4

\* any sequence of loads, of files of every kind, into a small table
NextLoad ==
    \E colorChannels \in Channels, tag \in Tags :
        /\ Cardinality(glTextures) < MaxGen
        /\ CreateGLTexture(colorChannels, tag)

SpecLoad == Init /\ [][NextLoad]_vars

\* any sequence of loads, of files that decode to 3 channels or not at all,
\* until the table is full and one more
NextFill ==
    \E colorChannels \in {0, 3}, tag \in Tags :
        /\ m_loadedTextures < MaxFill
        /\ CreateGLTexture(colorChannels, tag)

SpecFill == Init /\ [][NextFill]_vars

\* C3: FindTextureSlot(tag) is -1 for a tag no successful load was given, and
\* for a tag a successful load was given it is an index in 0..15 that no
\* later load changes.
C3_FindTextureSlotStable ==
    [][ \A tag \in Tags :
            /\ tag \notin loadedTags' => FindTextureSlot(tag)' = -1
            /\ tag \in loadedTags' => FindTextureSlot(tag)' \in 0..(TexCapacity - 1)
            /\ tag \in loadedTags => FindTextureSlot(tag)' = FindTextureSlot(tag)
      ]_vars

\* C4: the loaded-texture count never exceeds 16 and no entry is stored
\* outside m_textureIDs[0..15].
C4_AtMostSixteenEntries ==
    /\ m_loadedTextures <= TexCapacity
    /\ pastEnd = <<>>

\* C6: CreateGLTexture returns true exactly when the file decodes to 3 or 4
\* channels, and a call that returns false leaves the loaded-texture count
\* and the table as they were.
C6_LoadResult ==
    [][ call'.op = "CreateGLTexture" =>
            /\ bReturn' = (call'.arg[1] \in {3, 4})
            /\ bReturn' = FALSE =>
                   /\ m_loadedTextures' = m_loadedTextures
                   /\ m_textureIDs' = m_textureIDs
                   /\ pastEnd' = pastEnd
      ]_vars

\* loads of a 3-channel and of a 4-channel file have succeeded, and the last
\* load, of a 2-channel file, has failed with both entries still in the table
C6_Witness ==
    /\ call = [op |-> "CreateGLTexture", arg |-> <<2, "keys">>]
    /\ bReturn = FALSE
    /\ m_loadedTextures = 2
    /\ m_textureIDs[0] = [tag |-> "wood", ID |-> 1]
    /\ m_textureIDs[1] = [tag |-> "keys", ID |-> 2]
    /\ Cardinality(glTextures) = 3

\* C7: a CreateGLTexture call that returns false changes nothing: no texture
\* object is left generated or bound and no decoded image is left unfreed.
C7_FailedLoadMutatesNothing ==
    [][ (call'.op = "CreateGLTexture" /\ bReturn' = FALSE) =>
            /\ glTextures' = glTextures
            /\ glUnits' = glUnits
            /\ stbImages' = stbImages
            /\ m_loadedTextures' = m_loadedTextures
            /\ m_textureIDs' = m_textureIDs
      ]_vars

-----------------------------------------------------------------------------
(* Materials *)

\* any sequence of material insertions, material selections and draws
NextMaterial ==
    \/ \E material \in Materials :
           /\ Len(m_objectMaterials) < MaxMaterials
           /\ push_back(material)
    \/ \E t \in MaterialTags \cup {""} : setObjectShaderMaterial(t)
    \/ \E local \in Indeterminate : render(local)

SpecMaterial == Init /\ [][NextMaterial]_vars

HasMaterial(tag) == \E i \in 1..Len(m_objectMaterials) : m_objectMaterials[i].tag = tag

\* the smallest index of a record of m_objectMaterials with this tag
FirstMaterial(tag) ==
    CHOOSE i \in 1..Len(m_objectMaterials) :
        /\ m_objectMaterials[i].tag = tag
        /\ \A j \in 1..(i - 1) : m_objectMaterials[j].tag # tag

MaterialWrites(f) ==
    << <<"material.ambientColor", f.ambientColor>>,
       <<"material.ambientStrength", f.ambientStrength>>,
       <<"material.diffuseColor", f.diffuseColor>>,
       <<"material.specularColor", f.specularColor>>,
       <<"material.shininess", f.shininess>> >>

\* C5: a render() whose material tag is not empty and matches no record
\* writes none of the five material uniforms, and still draws the mesh.
C5_UnresolvedMaterialWritesNothing ==
    (call.op = "render" /\ shaderMaterial # "" /\ ~HasMaterial(shaderMaterial)) =>
        /\ \A name \in MaterialUniforms : ~Written(name)
        /\ Cardinality(Draws) = 1

\* C8: FindMaterial(tag) yields the five fields of the record with the
\* smallest index whose tag is the requested one, whatever the caller's
\* material held, and that is the material render() submits.
C8_FindMaterialFirstMatch ==
    /\ \A tag \in MaterialTags, local \in Indeterminate :
           HasMaterial(tag) =>
               FindMaterial(tag, local) =
                   [bReturn |-> TRUE, material |-> m_objectMaterials[FirstMaterial(tag)].fields]
    /\ (call.op = "render" /\ shaderMaterial # "" /\ HasMaterial(shaderMaterial)) =>
           /\ SubSeq(glCalls, Len(glCalls) - 5, Len(glCalls) - 1) =
                  MaterialWrites(m_objectMaterials[FirstMaterial(shaderMaterial)].fields)
           /\ \A i \in 1..5 :
                  LET w == MaterialWrites(m_objectMaterials[FirstMaterial(shaderMaterial)].fields)[i]
                  IN  uniforms[w[1]] = w[2]

\* render() has submitted the material "glass" from a table whose second and
\* third records both carry that tag, with different fields
C8_Witness ==
    /\ call.op = "render"
    /\ shaderMaterial = "glass"
    /\ Len(m_objectMaterials) = 3
    /\ m_objectMaterials[1] = OBJECT_MATERIAL("metal", MetalFields)
    /\ m_objectMaterials[2] = OBJECT_MATERIAL("glass", ScreenFields)
    /\ m_objectMaterials[3] = OBJECT_MATERIAL("glass", GlassFields)
    /\ uniforms["material.shininess"] = ScreenFields.shininess

\* C10: render() changes no builder field, and a render() that directly
\* follows a render() issues the same calls with the same values.
C10_RenderTwiceIdentical ==
    [][ call'.op = "render" =>
            /\ UNCHANGED objectVars
            /\ call.op = "render" => glCalls' = glCalls
      ]_vars

-----------------------------------------------------------------------------
(* The scene: textures loaded, then objects configured and drawn *)

\* PrepareScene, which loads the textures, runs before RenderScene, which
\* constructs the builder's first caller
Preparing == call.op \in {"object", "CreateGLTexture"}

NextScene ==
    \/ \E colorChannels \in {0, 4}, tag \in Tags :
           /\ Preparing
           /\ Cardinality(glTextures) < MaxSceneGen
           /\ CreateGLTexture(colorChannels, tag)
    \/ \E v \in Positions : setPosition(v)
    \/ \E v \in Rotations : setRotations(v)
    \/ \E v \in Scales : setScale(v)
    \/ \E v \in Vec4s : setRGBA(v)
    \/ \E t \in Tags \cup {""} : setTexture(t)
    \/ \E local \in Indeterminate : render(local)

SpecScene == Init /\ [][NextScene]_vars

\* the product translation * rotationX * rotationY * rotationZ * scale
ModelMatrix(p, r, s) ==
    glmTranslate(p) \o glmRotate(r[1], <<1, 0, 0>>) \o glmRotate(r[2], <<0, 1, 0>>)
        \o glmRotate(r[3], <<0, 0, 1>>) \o glmScale(s)

\* the smallest index of an entry of the texture table with this tag
FirstTexture(tag) ==
    CHOOSE i \in 0..(m_loadedTextures - 1) :
        /\ m_textureIDs[i].tag = tag
        /\ \A j \in 0..(i - 1) : m_textureIDs[j].tag # tag

\* C9: a render() of a builder whose texture tag was successfully loaded
\* writes the model matrix composed from its position, rotations and scale,
\* writes its colour, leaves bUseTexture enabled, writes the slot of the tag
\* as objectTexture and invokes the mesh selector exactly once.
C9_EndToEnd ==
    (call.op = "render" /\ texture \in loadedTags) =>
        /\ WrittenValue(g_ModelName, ModelMatrix(position, rotations, scale))
        /\ uniforms[g_ModelName] = ModelMatrix(position, rotations, scale)
        /\ WrittenValue(g_ColorValueName, RGBA)
        /\ uniforms[g_ColorValueName] = RGBA
        /\ uniforms[g_UseTextureName] = 1
        /\ WrittenValue(g_TextureValueName, FirstTexture(texture))
        /\ uniforms[g_TextureValueName] = FirstTexture(texture)
        /\ FindTextureSlot(texture) = FirstTexture(texture)
        /\ Cardinality(Draws) = 1
        /\ glCalls[Len(glCalls)] = <<"draw", shape>>

\* the draw of the example: "wood" loaded second, position (1,2,3), rotation
\* (0,90,0), scale (2,2,2), colour (1,0,0,1)
C9_Witness ==
    /\ call.op = "render"
    /\ m_loadedTextures = 2
    /\ m_textureIDs[1].tag = "wood" /\ m_textureIDs[0].tag = "keys"
    /\ texture = "wood"
    /\ position = <<1, 2, 3>> /\ rotations = <<0, 90, 0>> /\ scale = <<2, 2, 2>>
    /\ RGBA = <<1, 0, 0, 1>>
    /\ uniforms[g_ModelName] =
           << <<"translate", <<1, 2, 3>>>>, <<"rotate", 90, <<0, 1, 0>>>>, <<"scale", <<2, 2, 2>>>> >>
    /\ uniforms[g_TextureValueName] = 1

\* C11: a render() whose texture tag is not empty and matches no loaded
\* texture fails nowhere: it leaves bUseTexture enabled, writes -1 as
\* objectTexture, writes the builder's uvScale as UVscale and invokes the mesh
\* selector exactly once.
C11_UnknownTextureDraws ==
    (call.op = "render" /\ texture # "" /\ texture \notin loadedTags) =>
        /\ nullDeref = FALSE
        /\ WrittenValue(g_UseTextureName, 1)
        /\ uniforms[g_UseTextureName] = 1
        /\ WrittenValue(g_TextureValueName, -1)
        /\ uniforms[g_TextureValueName] = -1
        /\ WrittenValue("UVscale", uvScale)
        /\ uniforms["UVscale"] = uvScale
        /\ Cardinality(Draws) = 1
        /\ glCalls[Len(glCalls)] = <<"draw", shape>>

\* "wood" has been drawn by a fresh builder with only "keys" in the table
C11_Witness ==
    /\ call.op = "render"
    /\ texture = "wood"
    /\ m_loadedTextures = 1
    /\ m_textureIDs[0].tag = "keys"
    /\ loadedTags = {"keys"}
    /\ glCalls = << <<g_ModelName, Identity>>, <<g_UseTextureName, 0>>,
                    <<g_ColorValueName, <<0, 0, 0, 1>>>>, <<g_UseTextureName, 1>>,
                    <<g_TextureValueName, -1>>, <<"UVscale", <<0, 0>>>>,
                    <<"draw", "DrawBoxMesh">> >>

-----------------------------------------------------------------------------
(* The program: PrepareScene, then RenderScene once per frame *)

\* LoadSceneTextures loading the carpet under the tag "carpet"
SceneTextures_carpet ==
    <<"dark_ceramic", "cement", "clouds", "grass", "drywall", "carpet", "wood",
      "green_vegetation", "keys", "water", "orange_brick", "paper", "pencil", "homer">>

\* the tags LoadSceneTextures passes to CreateGLTexture, in order
SceneTextures ==
    <<"dark_ceramic", "cement", "clouds", "grass", "drywall", "dark_carpet", "wood",
      "green_vegetation", "keys", "water", "orange_brick", "paper", "pencil", "homer">>

\* the number of CreateGLTexture calls LoadSceneTextures has made: the place
\* in SceneTextures of the tag of the last one
LoadsMade ==
    IF call.op = "CreateGLTexture"
    THEN CHOOSE i \in 1..Len(SceneTextures) : SceneTextures[i] = call.arg[2]
    ELSE 0

\* PrepareScene has returned; RenderScene has constructed its builder
Prepared == call.op \notin {"object", "DefineObjectMaterials", "SetupSceneLights",
                            "CreateGLTexture", "~SceneManager"}
InRenderScene == Prepared /\ call.op # "BindGLTextures"

\* PrepareScene calls DefineObjectMaterials first
PrepareScene_materials ==
    /\ call.op = "object"
    /\ DefineObjectMaterials

PrepareScene_lights ==
    /\ call.op = "DefineObjectMaterials"
    /\ SetupSceneLights

\* the next CreateGLTexture call of LoadSceneTextures
LoadSceneTextures_load(colorChannels) ==
    /\ call.op \in {"SetupSceneLights", "CreateGLTexture"}
    /\ LoadsMade < Len(SceneTextures)
    /\ CreateGLTexture(colorChannels, SceneTextures[LoadsMade + 1])

\* LoadSceneTextures calling BindGLTextures before its last load
LoadSceneTextures_bindEarly ==
    /\ call.op = "CreateGLTexture"
    /\ LoadsMade = Len(SceneTextures) - 1
    /\ BindGLTextures

\* the last statement of LoadSceneTextures
LoadSceneTextures_bind ==
    /\ call.op = "CreateGLTexture"
    /\ LoadsMade = Len(SceneTextures)
    /\ BindGLTextures

\* RenderScene defining the materials again in every frame
RenderScene_definesMaterials ==
    /\ uvScale' = Default_uvScale
    /\ rotations' = Default_rotations
    /\ scale' = Default_scale
    /\ position' = Default_position
    /\ RGBA' = Default_RGBA
    /\ shape' = Default_shape
    /\ texture' = ""
    /\ shaderMaterial' = ""
    /\ m_objectMaterials' = m_objectMaterials \o m_objectMaterials
    /\ Called("RenderScene", <<>>)
    /\ NoCalls
    /\ UNCHANGED <<m_pShaderManager, textureVars, glVars>>

\* RenderScene constructs a builder, then configures and draws with it
RenderScene ==
    /\ uvScale' = Default_uvScale
    /\ rotations' = Default_rotations
    /\ scale' = Default_scale
    /\ position' = Default_position
    /\ RGBA' = Default_RGBA
    /\ shape' = Default_shape
    /\ texture' = ""
    /\ shaderMaterial' = ""
    /\ Called("RenderScene", <<>>)
    /\ NoCalls
    /\ UNCHANGED <<m_pShaderManager, textureVars, m_objectMaterials, glVars>>

NextProgram ==
    \/ PrepareScene_materials
    \/ PrepareScene_lights
    \/ \E colorChannels \in Channels :
           /\ colorChannels \notin {3, 4} => LoadsMade - m_loadedTextures < MaxFailedLoads
           /\ LoadSceneTextures_load(colorChannels)
    \/ LoadSceneTextures_bind
    \/ Prepared /\ RenderScene
    \/ \E t \in {"", "dark_ceramic", "homer"} : InRenderScene /\ setTexture(t)
    \/ \E t \in {"", "glass"} : InRenderScene /\ setObjectShaderMaterial(t)
    \/ \E local \in Indeterminate : InRenderScene /\ render(local)

SpecProgram == Init /\ [][NextProgram]_vars

\* C12: in the program's run BindGLTextures is called exactly once, after
\* the last CreateGLTexture call of LoadSceneTextures and before the first
\* draw of a builder with a texture tag; no CreateGLTexture call follows it.
C12_BindOnceAfterLoads ==
    [][ /\ call'.op = "BindGLTextures" =>
               /\ nBind = 0
               /\ call.op = "CreateGLTexture"
               /\ call.arg[2] = SceneTextures[Len(SceneTextures)]
        /\ call'.op = "CreateGLTexture" => nBind = 0
        /\ (call'.op = "render" /\ texture # "") => nBind = 1
      ]_vars

\* "homer", the last texture loaded, has been drawn from slot 13 after the
\* one BindGLTextures call bound it to unit 13
C12_Witness ==
    /\ call.op = "render"
    /\ texture = "homer"
    /\ nBind = 1
    /\ m_loadedTextures = 14
    /\ uniforms[g_TextureValueName] = 13
    /\ glUnits[13] = m_textureIDs[13].ID
    /\ m_textureIDs[13].tag = "homer"

-----------------------------------------------------------------------------
(* The registry from construction to teardown *)

\* the destructor has not run
Alive == call.op # "~SceneManager"

\* loads, binds, texture selections and draws in any order, then the destructor
NextLifetime ==
    \/ \E colorChannels \in Channels, tag \in Tags :
           /\ Alive
           /\ Cardinality(glTextures) < MaxGen
           /\ CreateGLTexture(colorChannels, tag)
    \/ Alive /\ nBind < MaxBinds /\ BindGLTextures
    \/ \E t \in Tags \cup {""} : Alive /\ setTexture(t)
    \/ \E local \in Indeterminate : Alive /\ render(local)
    \/ Alive /\ SceneManager_destructor

SpecLifetime == Init /\ [][NextLifetime]_vars

\* C13: the destructor releases the OpenGL texture of every entry a
\* successful load registered, so that none of them is live afterwards, and
\* creates no texture object.
C13_TeardownReleasesHandles ==
    [][ call'.op = "~SceneManager" =>
            /\ \A i \in 0..(m_loadedTextures - 1) : TextureInfoAt(i).ID \notin glTextures'
            /\ glTextures' \subseteq glTextures
      ]_vars

-----------------------------------------------------------------------------
(* The model matrix *)

\* rotations about one axis, about all three, and none
AxisRotations == {<<0, 0, 0>>, <<0, 90, 0>>, <<10, 20, 30>>}

NextTransform ==
    \/ \E v \in Positions : setPosition(v)
    \/ \E v \in AxisRotations : setRotations(v)
    \/ \E v \in Scales : setScale(v)
    \/ \E local \in Indeterminate : render(local)

SpecTransform == Init /\ [][NextTransform]_vars

\* the five factors in the order translation, rotation about X, about Y,
\* about Z, scale; a factor that is the identity matrix drops out of a product
Factors(p, r, s) ==
    << <<"translate", p>>, <<"rotate", r[1], <<1, 0, 0>>>>, <<"rotate", r[2], <<0, 1, 0>>>>,
       <<"rotate", r[3], <<0, 0, 1>>>>, <<"scale", s>> >>
NotIdentity(f) ==
    /\ f[1] = "translate" => f[2] # <<0, 0, 0>>
    /\ f[1] = "rotate" => f[2] # 0
    /\ f[1] = "scale" => f[2] # <<1, 1, 1>>

\* C14: the matrix render() writes to the uniform model is the product
\* translation(position) * rotationX(rotations.x) * rotationY(rotations.y) *
\* rotationZ(rotations.z) * scale(scale), in that order.
C14_ModelMatrixOrder ==
    call.op = "render" =>
        /\ glCalls[1] = <<g_ModelName, SelectSeq(Factors(position, rotations, scale), NotIdentity)>>
        /\ uniforms[g_ModelName] = SelectSeq(Factors(position, rotations, scale), NotIdentity)
        /\ \A i \in 2..Len(glCalls) : glCalls[i][1] # g_ModelName

\* a draw with position (1,2,3), rotations (10,20,30) and scale (2,2,2)
C14_Witness ==
    /\ call.op = "render"
    /\ uniforms[g_ModelName] =
           << <<"translate", <<1, 2, 3>>>>, <<"rotate", 10, <<1, 0, 0>>>>,
              <<"rotate", 20, <<0, 1, 0>>>>, <<"rotate", 30, <<0, 0, 1>>>>,
              <<"scale", <<2, 2, 2>>>> >>
    /\ position = <<1, 2, 3>> /\ rotations = <<10, 20, 30>> /\ scale = <<2, 2, 2>>

-----------------------------------------------------------------------------
(* The order of the calls of one draw *)

\* materials defined, then textures and materials selected and drawn
NextOrder ==
    \/ \E material \in Materials :
           /\ call.op \in {"object", "push_back"}
           /\ Len(m_objectMaterials) < MaxMaterials
           /\ push_back(material)
    \/ \E t \in {"", "wood"} : setTexture(t)
    \/ \E t \in MaterialTags \cup {""} : setObjectShaderMaterial(t)
    \/ \E local \in Indeterminate : render(local)

SpecOrder == Init /\ [][NextOrder]_vars

\* the names of the calls of the last operation, in order
CallNames == [i \in 1..Len(glCalls) |-> glCalls[i][1]]
TextureNames == <<g_UseTextureName, g_TextureValueName, "UVscale">>
MaterialNames == [i \in 1..5 |-> MaterialWrites(MetalFields)[i][1]]

\* C15: the calls of a render() are, in this order: the model matrix; the
\* colour, with bUseTexture disabled; if and only if the texture tag is not
\* empty, bUseTexture enabled and the slot; only if the material tag is not
\* empty, the material; last, one invocation of the mesh selector.  So at
\* every mesh draw bUseTexture is enabled exactly when the texture tag is not
\* empty.
C15_RenderCallOrder ==
    call.op = "render" =>
        /\ \E m \in {<<>>, MaterialNames} :
               /\ m # <<>> => shaderMaterial # ""
               /\ CallNames = <<g_ModelName, g_UseTextureName, g_ColorValueName>>
                                   \o (IF texture # "" THEN TextureNames ELSE <<>>)
                                   \o m \o <<"draw">>
        /\ glCalls[2] = <<g_UseTextureName, 0>>
        /\ texture # "" => glCalls[4] = <<g_UseTextureName, 1>>
        /\ uniforms[g_UseTextureName] = (IF texture # "" THEN 1 ELSE 0)

\* a draw without a texture after a draw with the texture "wood" and the
\* material "glass": bUseTexture is disabled again, the slot stays
C15_Witness ==
    /\ call.op = "render"
    /\ texture = "" /\ shaderMaterial = "glass"
    /\ HasMaterial("glass")
    /\ Len(glCalls) = 9
    /\ uniforms[g_UseTextureName] = 0
    /\ g_TextureValueName \in DOMAIN uniforms

\* C16: BindGLTextures binds the ID of entry i to texture unit i for every i
\* below m_loadedTextures, changes the binding of no other unit, and changes
\* neither the table nor m_loadedTextures.
C16_BindGLTextures ==
    [][ call'.op = "BindGLTextures" =>
            /\ \A i \in 0..(m_loadedTextures - 1) : glUnits'[i] = m_textureIDs[i].ID
            /\ DOMAIN glUnits' = DOMAIN glUnits
            /\ \A u \in DOMAIN glUnits : u >= m_loadedTextures => glUnits'[u] = glUnits[u]
            /\ UNCHANGED <<m_textureIDs, m_loadedTextures, pastEnd>>
      ]_vars

\* after a load that failed with its texture 1 left bound to unit 0, and two
\* loads that succeeded, BindGLTextures has bound textures 2 and 3 to units
\* 0 and 1
C16_Witness ==
    /\ call.op = "BindGLTextures"
    /\ m_loadedTextures = 2
    /\ glTextures = {1, 2, 3}
    /\ m_textureIDs[0].ID = 2 /\ m_textureIDs[1].ID = 3
    /\ glUnits[0] = 2 /\ glUnits[1] = 3 /\ glUnits[2] = 0
    /\ nBind = 1

\* C17: between construction and teardown the table only grows:
\* m_loadedTextures never decreases, and no CreateGLTexture, BindGLTextures,
\* lookup or render() changes or removes the tag or the ID of an entry that
\* is registered.
C17_TableMonotonic ==
    [][ call'.op # "~SceneManager" =>
            /\ m_loadedTextures' >= m_loadedTextures
            /\ \A i \in 0..(m_loadedTextures - 1) : TextureInfoAt(i)' = TextureInfoAt(i)
      ]_vars

\* "wood" registered first and "keys" second, a second load of "wood"
\* registered third, all bound, and "wood" drawn from slot 0
C17_Witness ==
    /\ call.op = "render"
    /\ texture = "wood"
    /\ uniforms[g_TextureValueName] = 0
    /\ m_loadedTextures = 3
    /\ m_textureIDs[0] = [tag |-> "wood", ID |-> 1]
    /\ m_textureIDs[1] = [tag |-> "keys", ID |-> 2]
    /\ m_textureIDs[2] = [tag |-> "wood", ID |-> 3]
    /\ nBind > 0
    /\ glUnits[0] = 1 /\ glUnits[1] = 2 /\ glUnits[2] = 3

\* C18: a load that fails takes no entry: m_loadedTextures is the number of
\* loads that have succeeded, the entries below it are the registered ones,
\* and a successful load registers its tag and its new texture at index
\* m_loadedTextures; so the k-th successful load is at index k-1.
C18_SuccessfulLoadsContiguous ==
    /\ [](\A i \in 0..(TexCapacity - 1) :
              (i < m_loadedTextures) <=> (m_textureIDs[i] # EmptyTextureInfo))
    /\ [][ call'.op = "CreateGLTexture" =>
               IF bReturn'
               THEN /\ m_loadedTextures' = m_loadedTextures + 1
                    /\ m_textureIDs'[m_loadedTextures].tag = call'.arg[2]
                    /\ m_textureIDs'[m_loadedTextures].ID \in glTextures' \ glTextures
                    /\ \A i \in 0..(TexCapacity - 1) :
                           i # m_loadedTextures => m_textureIDs'[i] = m_textureIDs[i]
               ELSE /\ m_loadedTextures' = m_loadedTextures
                    /\ m_textureIDs' = m_textureIDs
          ]_vars

\* the second successful load, of "keys", is at index 1 although it is the
\* third load: the second one, of a 2-channel file, failed
C18_Witness ==
    /\ call = [op |-> "CreateGLTexture", arg |-> <<4, "keys">>]
    /\ bReturn = TRUE
    /\ glTextures = {1, 2, 3}
    /\ m_loadedTextures = 2
    /\ m_textureIDs[0] = [tag |-> "wood", ID |-> 1]
    /\ m_textureIDs[1] = [tag |-> "keys", ID |-> 3]
    /\ m_textureIDs[2] = EmptyTextureInfo

-----------------------------------------------------------------------------
(* Uniforms a draw leaves alone *)

\* the uniform has the same value, or no value, before and after the step
Kept(name) ==
    /\ name \in DOMAIN uniforms' <=> name \in DOMAIN uniforms
    /\ name \in DOMAIN uniforms => uniforms'[name] = uniforms[name]

\* C19: a render() of a builder whose texture tag is empty writes neither
\* objectTexture nor UVscale, whatever uvScale holds: both uniforms keep the
\* values earlier draws gave them.
C19_EmptyTextureKeepsUniforms ==
    [][ (call'.op = "render" /\ texture = "") =>
            /\ \A i \in 1..Len(glCalls') : glCalls'[i][1] \notin {g_TextureValueName, "UVscale"}
            /\ Kept(g_TextureValueName)
            /\ Kept("UVscale")
      ]_vars

\* a draw without a texture by a builder whose uvScale is (1,1), after a draw
\* with a texture that wrote (0,0) as UVscale: UVscale is still (0,0)
C19_Witness ==
    /\ call.op = "render"
    /\ texture = ""
    /\ uvScale = <<1, 1>>
    /\ ~Written("UVscale")
    /\ "UVscale" \in DOMAIN uniforms
    /\ uniforms["UVscale"] = <<0, 0>>
    /\ uniforms[g_TextureValueName] = -1
    /\ uniforms[g_UseTextureName] = 0

\* C20: render() writes the five material uniforms only when the material
\* tag is not empty, and then with the fields of the record FindMaterial
\* resolves for the tag; with an empty material tag the shader keeps the
\* material of the most recent earlier draw.
C20_MaterialWrittenFromRecord ==
    [][ call'.op = "render" =>
            /\ (\E i \in 1..Len(glCalls') : glCalls'[i][1] \in MaterialUniforms) =>
                   /\ shaderMaterial # ""
                   /\ HasMaterial(shaderMaterial)
                   /\ SubSeq(glCalls', Len(glCalls') - 5, Len(glCalls') - 1) =
                          MaterialWrites(m_objectMaterials[FirstMaterial(shaderMaterial)].fields)
            /\ shaderMaterial = "" => \A name \in MaterialUniforms : Kept(name)
      ]_vars

-----------------------------------------------------------------------------
(* The materials of the scene *)

\* the tags of the records of m_objectMaterials, in order
MaterialTagsInOrder == [i \in 1..Len(m_objectMaterials) |-> m_objectMaterials[i].tag]

-----------------------------------------------------------------------------
(* The tables after preparation *)

\* PrepareScene with every texture file loading, then any sequence of
\* builder calls; the setters of the rotations, scale, colour, mesh and UV
\* scale are given one value each
NextPrepared ==
    \/ PrepareScene_materials
    \/ PrepareScene_lights
    \/ \E colorChannels \in {3, 4} : LoadSceneTextures_load(colorChannels)
    \/ LoadSceneTextures_bind
    \/ Prepared /\ RenderScene
    \/ \E v \in {<<1, 1>>} : InRenderScene /\ set_uvScale(v)
    \/ \E v \in {Default_rotations} : InRenderScene /\ setRotations(v)
    \/ \E v \in {Default_scale} : InRenderScene /\ setScale(v)
    \/ \E v \in Positions : InRenderScene /\ setPosition(v)
    \/ \E v \in {Default_RGBA} : InRenderScene /\ setRGBA(v)
    \/ \E f \in {Default_shape} : InRenderScene /\ setShape(f)
    \/ \E t \in {"", "homer"} : InRenderScene /\ setTexture(t)
    \/ \E t \in {"", "glass"} : InRenderScene /\ setObjectShaderMaterial(t)
    \/ InRenderScene /\ resetAll
    \/ \E local \in Indeterminate : InRenderScene /\ render(local)

SpecPrepared == Init /\ [][NextPrepared]_vars

\* C22: once PrepareScene has returned, no builder setter, resetAll, render()
\* or lookup adds, removes or changes an entry of the texture table or a
\* record of the material table.
C22_TablesReadOnly ==
    [][ Prepared =>
            /\ UNCHANGED <<m_textureIDs, m_loadedTextures, pastEnd, m_objectMaterials>>
            /\ \A t \in {"homer", "glass", "screen"} :
                   /\ FindTextureSlot(t)' = FindTextureSlot(t)
                   /\ FindTextureID(t)' = FindTextureID(t)
                   /\ \A local \in Indeterminate : FindMaterial(t, local)' = FindMaterial(t, local)
      ]_vars

\* after a draw with the texture "homer" and the material "glass", and a
\* resetAll, a draw without either: both tables are as PrepareScene left them
C22_Witness ==
    /\ call.op = "render"
    /\ texture = "" /\ shaderMaterial = ""
    /\ g_TextureValueName \in DOMAIN uniforms
    /\ uniforms[g_TextureValueName] = 13
    /\ "material.shininess" \in DOMAIN uniforms
    /\ uniforms["material.shininess"] = GlassFields.shininess
    /\ m_loadedTextures = 14
    /\ MaterialTagsInOrder = <<"metal", "wood", "glass", "soft", "wall", "matte", "hedge">>
    /\ FindTextureSlot("homer") = 13

\* C23: the record tagged "glass" keeps the values it was pushed with
\* (ambientColor (0.4,0.4,0.4), ambientStrength 0.3, diffuseColor
\* (0.3,0.3,0.3), specularColor (0.6,0.6,0.6), shininess 85), and every
\* render() with the material tag "glass" submits them, never the values
\* assigned under the heading of the screen material.
C23_GlassKeepsValues ==
    LET glass == MaterialFields(<<400, 400, 400>>, 300, <<300, 300, 300>>, <<600, 600, 600>>, 85000)
    IN  /\ call.op # "object" =>
               /\ m_objectMaterials[3] = [tag |-> "glass", fields |-> glass]
               /\ \A i \in 1..Len(m_objectMaterials) :
                      m_objectMaterials[i].tag = "glass" => i = 3
               /\ \A local \in Indeterminate : FindMaterial("glass", local).material = glass
        /\ (call.op = "render" /\ shaderMaterial = "glass") =>
               /\ SubSeq(glCalls, Len(glCalls) - 5, Len(glCalls) - 1) = MaterialWrites(glass)
               /\ uniforms["material.ambientColor"] = <<400, 400, 400>>
               /\ uniforms["material.ambientStrength"] = 300
               /\ uniforms["material.diffuseColor"] = <<300, 300, 300>>
               /\ uniforms["material.specularColor"] = <<600, 600, 600>>
               /\ uniforms["material.shininess"] = 85000
               /\ uniforms["material.ambientColor"] # ScreenFields.ambientColor
               /\ uniforms["material.shininess"] # ScreenFields.shininess

\* a textured draw of the prepared scene has submitted the material "glass"
C23_Witness ==
    /\ call.op = "render"
    /\ shaderMaterial = "glass"
    /\ texture = "dark_ceramic"
    /\ uniforms[g_TextureValueName] = 0
    /\ uniforms["material.ambientStrength"] = 300
    /\ uniforms["material.shininess"] = 85000
    /\ glCalls[Len(glCalls) - 1] = <<"material.shininess", 85000>>

-----------------------------------------------------------------------------
(* The tags of the scene *)

\* the arguments of the setTexture calls of RenderScene
RenderSceneTextures ==
    {"", "dark_ceramic", "wood", "homer", "keys", "water", "drywall", "dark_carpet",
     "clouds", "orange_brick", "green_vegetation", "cement"}

\* the arguments of the setObjectShaderMaterial calls of RenderScene
RenderSceneMaterials == {"glass", "wood", "soft", "matte", "metal", "wall", "hedge"}

\* PrepareScene with every texture file loading, then the texture and
\* material selections of RenderScene in any order, and draws
NextTags ==
    \/ PrepareScene_materials
    \/ PrepareScene_lights
    \/ \E colorChannels \in {3, 4} : LoadSceneTextures_load(colorChannels)
    \/ LoadSceneTextures_bind
    \/ Prepared /\ RenderScene
    \/ \E t \in RenderSceneTextures : InRenderScene /\ setTexture(t)
    \/ \E t \in RenderSceneMaterials : InRenderScene /\ setObjectShaderMaterial(t)
    \/ \E local \in Indeterminate : InRenderScene /\ render(local)

SpecTags == Init /\ [][NextTags]_vars

\* C24: when every load of LoadSceneTextures has succeeded, every texture
\* tag but "" that RenderScene passes to setTexture is in one of the entries
\* 0..13, every material tag it passes to setObjectShaderMaterial is the tag
\* of a record, and no draw submits -1 as objectTexture or a material that
\* is not the one of the record.
C24_SceneTagsResolve ==
    (Prepared /\ m_loadedTextures = Len(SceneTextures)) =>
        /\ \A t \in RenderSceneTextures \ {""} :
               /\ FindTextureSlot(t) \in 0..13
               /\ m_textureIDs[FindTextureSlot(t)].tag = t
        /\ \A t \in RenderSceneMaterials : HasMaterial(t)
        /\ call.op = "render" =>
               /\ ~WrittenValue(g_TextureValueName, -1)
               /\ texture # "" => uniforms[g_TextureValueName] = FindTextureSlot(texture)
               /\ shaderMaterial # "" =>
                      SubSeq(glCalls, Len(glCalls) - 5, Len(glCalls) - 1) =
                          MaterialWrites(m_objectMaterials[FirstMaterial(shaderMaterial)].fields)

\* the hedge of the scene has been drawn: texture "green_vegetation" from
\* slot 7, material "hedge"
C24_Witness ==
    /\ call.op = "render"
    /\ texture = "green_vegetation"
    /\ shaderMaterial = "hedge"
    /\ uniforms[g_TextureValueName] = 7
    /\ uniforms["material.specularColor"] = <<400, 200, 200>>

-----------------------------------------------------------------------------
(* A scene manager without a shader interface *)

\* materials defined, then builder calls and draws, m_pShaderManager being NULL
NextNull ==
    \/ \E material \in Materials :
           /\ call.op \in {"object", "push_back"}
           /\ Len(m_objectMaterials) < MaxMaterials
           /\ push_back(material)
    \/ \E v \in Vec2s : set_uvScale(v)
    \/ \E v \in Positions : setPosition(v)
    \/ \E v \in Vec4s : setRGBA(v)
    \/ \E t \in {"", "wood"} : setTexture(t)
    \/ \E t \in MaterialTags \cup {""} : setObjectShaderMaterial(t)
    \/ \E local \in Indeterminate : render(local)

SpecNull == InitNull /\ [][NextNull]_vars

\* C25: when m_pShaderManager is NULL, a render() writes no uniform and
\* dereferences no null pointer in any of its steps, whatever the builder
\* holds and whatever the material table holds, and invokes the mesh
\* selector exactly once.
C25_NullShaderManagerSafe ==
    (m_pShaderManager = NULL /\ call.op = "render") =>
        /\ nullDeref = FALSE
        /\ DOMAIN uniforms = {}
        /\ glCalls = << <<"draw", shape>> >>

-----------------------------------------------------------------------------
(* The two texture lookups *)

\* C26: FindTextureID and FindTextureSlot agree in every state of the table:
\* for any tag, FindTextureID is -1 exactly when FindTextureSlot is -1, and
\* otherwise FindTextureID is the ID of the entry at the index FindTextureSlot
\* returns, which is the first entry with the tag.
C26_LookupsAgree ==
    \A tag \in Tags \cup {"homer", "/0"} :
        LET slot == FindTextureSlot(tag) IN
        /\ (FindTextureID(tag) = -1) <=> (slot = -1)
        /\ slot # -1 =>
               /\ slot \in 0..(m_loadedTextures - 1)
               /\ FindTextureID(tag) = TextureInfoAt(slot).ID
               /\ TextureInfoAt(slot).tag = tag
               /\ \A j \in 0..(slot - 1) : TextureInfoAt(j).tag # tag

\* with "wood" in entries 0 and 2 and "keys" in entry 1, both lookups of
\* "wood" give entry 0 and both lookups of "homer" give -1
C26_Witness ==
    /\ m_loadedTextures = 3
    /\ m_textureIDs[0].tag = "wood" /\ m_textureIDs[1].tag = "keys" /\ m_textureIDs[2].tag = "wood"
    /\ FindTextureSlot("wood") = 0 /\ FindTextureID("wood") = m_textureIDs[0].ID
    /\ FindTextureID("wood") # m_textureIDs[2].ID
    /\ FindTextureSlot("keys") = 1 /\ FindTextureID("keys") = m_textureIDs[1].ID
    /\ FindTextureSlot("homer") = -1 /\ FindTextureID("homer") = -1

====
